---- MODULE Spec2Model ----
(***************************************************************************)
(* The qwikLogger Vite plugin (src/src/routes/index.tsx, lines 43-289) as  *)
(* a state machine driven by its host.  The plugin is a closure: five      *)
(* mutable variables and four constants shared by eleven hooks.  The host  *)
(* may call any hook at any time with any argument; nothing in the plugin  *)
(* enforces an order.                                                      *)
(*                                                                         *)
(* A JavaScript string is a sequence of characters, a character is a       *)
(* one-character TLA+ string, and NUL stands for the character U+0000.     *)
(***************************************************************************)
EXTENDS Integers, Sequences, FiniteSets, TLC

NUL == "\\0"

VARIABLES
    isDev,          \* let isDev
    pluginNames,    \* let pluginNames: string[]
    viteMode,       \* let viteMode
    viteCommand,    \* let viteCommand
    viteConfigRoot, \* let viteConfigRoot
    buildTime,      \* const buildTime, taken from the clock at construction
    now,            \* the wall clock, in milliseconds since the epoch
    call,           \* the hook invocation just performed: [hook, args]
    ret,            \* what that invocation returned
    logged,         \* the arguments of the console.log calls it made, in order
    lastConfig,     \* history: <<command>> of the latest config call, or <<>>
    lastResolved,   \* history: <<config>> of the latest configResolved call, or <<>>
    chain,          \* history: the code a run of successive transforms started from, and its length
    twin            \* a second run given the same hook calls with config's "serve" and "build"
                    \* exchanged: its isDev, and what its resolveId or load just returned

state == <<isDev, pluginNames, viteMode, viteCommand, viteConfigRoot>>
vars == <<isDev, pluginNames, viteMode, viteCommand, viteConfigRoot, buildTime,
          now, call, ret, logged, lastConfig, lastResolved, chain, twin>>

----------------------------------------------------------------------------
(* Bounds of the model *)

\* the clock runs from the construction instant up to MaxClock
MaxClock == 2
\* the longest run of transforms applied to their own output
MaxApply == 3

----------------------------------------------------------------------------
(* JavaScript values *)

Null == [t |-> "null"]
Undefined == [t |-> "undefined"]
Str(s) == [t |-> "string", v |-> s]

\* Array.prototype.join
RECURSIVE join(_, _)
join(ss, sep) ==
    IF ss = <<>> THEN <<>>
    ELSE IF Len(ss) = 1 THEN ss[1]
    ELSE ss[1] \o sep \o join(Tail(ss), sep)

EndsWith(s, suffix) ==
    /\ Len(s) >= Len(suffix)
    /\ SubSeq(s, Len(s) - Len(suffix) + 1, Len(s)) = suffix

Digits == <<"0","1","2","3","4","5","6","7","8","9">>
Digit(d) == Digits[d + 1]
Pad2(n) == <<Digit((n \div 10) % 10), Digit(n % 10)>>
Pad3(n) == <<Digit((n \div 100) % 10)>> \o Pad2(n)

\* new Date().toISOString() at clock value t, for t within the first day of the epoch
toISOString(t) ==
    <<"1","9","7","0","-","0","1","-","0","1","T">> \o Pad2((t \div (60 * 60 * 1000)) % 24) \o <<":">>
        \o Pad2((t \div (60 * 1000)) % 60) \o <<":">>
        \o Pad2((t \div 1000) % 60) \o <<".">> \o Pad3(t % 1000) \o <<"Z">>

----------------------------------------------------------------------------
(* The plugin's constants *)

virtualModuleId == <<"v","i","r","t","u","a","l",":","v","i","t","e","-","i","n","f","o">>

\* a resolved id without the NUL prefix
unprefixedModuleId == virtualModuleId

resolvedVirtualModuleId == <<NUL>> \o virtualModuleId

pluginName == <<"v","i","t","e","-","p","l","u","g","i","n","-","q","w","i","k","-","l","o","g","g","e","r">>

----------------------------------------------------------------------------
(* What the host passes in *)

serve == <<"s","e","r","v","e">>
build == <<"b","u","i","l","d">>

\* config's command: the two the host documents, and one it does not
Commands == {serve, build, <<"p","r","e","v","i","e","w">>}

\* module ids, import sources and file paths
Ids == {virtualModuleId, resolvedVirtualModuleId, <<"a",".","t","s">>, <<"a",".","j","s">>, <<"a",".","t","s","x">>,
        <<"a",".","T","S">>, <<"a",".","t","s","?","v">>, <<"a","t","s">>}

\* the ids transform is given: those, and two more that differ from a.js in
\* an added letter or in case
TransformIds == Ids \cup {<<"a",".","j","s","x">>, <<"a",".","J","S">>}

Codes == {<<"c","o","n","s","t"," ","x"," ","="," ","1",";">>, <<>>}

Events == {<<"c","r","e","a","t","e">>, <<"u","p","d","a","t","e">>, <<"d","e","l","e","t","e">>}

PluginLists == {<<>>, <<<<"a">>>>, <<<<"a">>, <<"b">>>>, <<<<"b">>, <<"a">>>>}

Descriptors == {[mode |-> <<"d","e","v","e","l","o","p","m","e","n","t">>, command |-> serve, root |-> <<"/","p","r","o","j">>],
                [mode |-> <<"p","r","o","d","u","c","t","i","o","n">>, command |-> build, root |-> <<"/","p","r","o","j">>],
                [mode |-> <<"d","e","v","e","l","o","p","m","e","n","t">>, command |-> build, root |-> <<"/","s","r","v">>]}

\* the ResolvedConfig objects configResolved may be given
\* configs whose strings hold the characters a string literal gives meaning to:
\* a plugin name with a single quote, a mode with a double quote, a Windows root
VerbatimConfigs ==
    {[plugins |-> <<[name |-> <<"o","'","k">>]>>,
      mode |-> <<"d","e","v","e","l","o","p","m","e","n","t">>, command |-> serve, root |-> <<"/","p","r","o","j">>],
     [plugins |-> <<[name |-> <<"a">>]>>,
      mode |-> <<"d","e","v","\"">>, command |-> build, root |-> <<"C",":","\\","p">>]}

ResolvedConfigs ==
    {[plugins |-> [i \in 1..Len(names) |-> [name |-> names[i]]],
      mode |-> d.mode, command |-> d.command, root |-> d.root] :
        names \in PluginLists, d \in Descriptors}
    \cup VerbatimConfigs

\* output bundles: the file names that key the bundle object, in order
Bundles == {<<>>, <<<<"q",".","j","s">>>>, <<<<"q",".","j","s">>, <<"m",".","j","s","o","n">>>>}

----------------------------------------------------------------------------
(* The hooks as functions of the closure's variables *)

\* a config that treats every command but "build" as the dev server
configUnlessBuild(command) == command # build

\* a config that leaves isDev alone on a command it does not know
configKeepsPrior(command) ==
    IF command \in {serve, build} THEN command = serve ELSE isDev

\* config: command === "serve"
config(command) == command = serve

\* a resolveId that accepts any source ending in the virtual module id
resolveIdBySuffix(source) ==
    IF EndsWith(source, virtualModuleId) THEN Str(resolvedVirtualModuleId) ELSE Null

\* the command of the second run: "serve" for "build" and "build" for "serve"
Exchanged(command) ==
    IF command = serve THEN build ELSE IF command = build THEN serve ELSE command

\* resolveId(source) in a closure whose isDev is dev
resolveIdWith(dev, source) ==
    IF source = virtualModuleId THEN Str(resolvedVirtualModuleId) ELSE Null

\* resolveId(source)
resolveId(source) == resolveIdWith(isDev, source)

\* pluginNames.map(p => "'" + p + "'").join(",")
pluginsString ==
    join([i \in 1..Len(pluginNames) |-> <<"'">> \o pluginNames[i] \o <<"'">>], <<",">>)

\* a template that stamps the time of the load in place of buildTime
generatedSourceStampedNow ==
    <<"\n","\t","\t","\t","\t","\t","e","x","p","o","r","t"," ","c","o","n","s","t"," ","g","e","t","T","i","m","e","s","t","a","m","p"," ","="," ","(",")"," ","=",">"," ","n","e","w"," ","D","a","t","e","(",")",".","t","o","I","S","O","S","t","r","i","n","g","(",")",";">>
    \o <<"\n","\t","\t","\t","\t","\t","e","x","p","o","r","t"," ","c","o","n","s","t"," ","b","u","i","l","d","T","i","m","e"," ","="," ","\"">> \o toISOString(now) \o <<"\"",";">>
    \o <<"\n","\t","\t","\t","\t","\t","e","x","p","o","r","t"," ","c","o","n","s","t"," ","p","l","u","g","i","n","N","a","m","e","s"," ","="," ","[">> \o pluginsString \o <<"]",";">>
    \o <<"\n","\t","\t","\t","\t","\t","e","x","p","o","r","t"," ","c","o","n","s","t"," ","v","i","t","e","M","o","d","e"," ","="," ","\"">> \o viteMode \o <<"\"",";">>
    \o <<"\n","\t","\t","\t","\t","\t","e","x","p","o","r","t"," ","c","o","n","s","t"," ","v","i","t","e","C","o","m","m","a","n","d"," ","="," ","\"">> \o viteCommand \o <<"\"",";">>
    \o <<"\n","\t","\t","\t","\t","\t","e","x","p","o","r","t"," ","c","o","n","s","t"," ","v","i","t","e","C","o","n","f","i","g","R","o","o","t"," ","="," ","\"">> \o viteConfigRoot \o <<"\"",";">>
    \o <<"\n"," "," "," "," "," "," "," "," ","\t","\t">>

\* a template filled in once, when the plugin is constructed
generatedSourceAtConstruction ==
    <<"\n","\t","\t","\t","\t","\t","e","x","p","o","r","t"," ","c","o","n","s","t"," ","g","e","t","T","i","m","e","s","t","a","m","p"," ","="," ","(",")"," ","=",">"," ","n","e","w"," ","D","a","t","e","(",")",".","t","o","I","S","O","S","t","r","i","n","g","(",")",";">>
    \o <<"\n","\t","\t","\t","\t","\t","e","x","p","o","r","t"," ","c","o","n","s","t"," ","b","u","i","l","d","T","i","m","e"," ","="," ","\"">> \o buildTime \o <<"\"",";">>
    \o <<"\n","\t","\t","\t","\t","\t","e","x","p","o","r","t"," ","c","o","n","s","t"," ","p","l","u","g","i","n","N","a","m","e","s"," ","="," ","[","]",";">>
    \o <<"\n","\t","\t","\t","\t","\t","e","x","p","o","r","t"," ","c","o","n","s","t"," ","v","i","t","e","M","o","d","e"," ","="," ","\"","\"",";">>
    \o <<"\n","\t","\t","\t","\t","\t","e","x","p","o","r","t"," ","c","o","n","s","t"," ","v","i","t","e","C","o","m","m","a","n","d"," ","="," ","\"","\"",";">>
    \o <<"\n","\t","\t","\t","\t","\t","e","x","p","o","r","t"," ","c","o","n","s","t"," ","v","i","t","e","C","o","n","f","i","g","R","o","o","t"," ","="," ","\"","\"",";">>
    \o <<"\n"," "," "," "," "," "," "," "," ","\t","\t">>

\* the template literal load returns
generatedSource ==
    <<"\n","\t","\t","\t","\t","\t","e","x","p","o","r","t"," ","c","o","n","s","t"," ","g","e","t","T","i","m","e","s","t","a","m","p"," ","="," ","(",")"," ","=",">"," ","n","e","w"," ","D","a","t","e","(",")",".","t","o","I","S","O","S","t","r","i","n","g","(",")",";">>
    \o <<"\n","\t","\t","\t","\t","\t","e","x","p","o","r","t"," ","c","o","n","s","t"," ","b","u","i","l","d","T","i","m","e"," ","="," ","\"">> \o buildTime \o <<"\"",";">>
    \o <<"\n","\t","\t","\t","\t","\t","e","x","p","o","r","t"," ","c","o","n","s","t"," ","p","l","u","g","i","n","N","a","m","e","s"," ","="," ","[">> \o pluginsString \o <<"]",";">>
    \o <<"\n","\t","\t","\t","\t","\t","e","x","p","o","r","t"," ","c","o","n","s","t"," ","v","i","t","e","M","o","d","e"," ","="," ","\"">> \o viteMode \o <<"\"",";">>
    \o <<"\n","\t","\t","\t","\t","\t","e","x","p","o","r","t"," ","c","o","n","s","t"," ","v","i","t","e","C","o","m","m","a","n","d"," ","="," ","\"">> \o viteCommand \o <<"\"",";">>
    \o <<"\n","\t","\t","\t","\t","\t","e","x","p","o","r","t"," ","c","o","n","s","t"," ","v","i","t","e","C","o","n","f","i","g","R","o","o","t"," ","="," ","\"">> \o viteConfigRoot \o <<"\"",";">>
    \o <<"\n"," "," "," "," "," "," "," "," ","\t","\t">>

\* a load that also serves the unresolved id
loadEitherId(id) ==
    IF id = resolvedVirtualModuleId \/ id = virtualModuleId
    THEN Str(generatedSource) ELSE Null

\* a load that serves nothing until configResolved has filled the state in
loadOnceResolved(id) ==
    IF id = resolvedVirtualModuleId /\ viteMode # <<>>
    THEN Str(generatedSource) ELSE Null

\* a load that serves the module only in the dev server (line 156 uncommented)
loadWithDevOnly(dev, id) ==
    IF ~dev THEN Null
    ELSE IF id = resolvedVirtualModuleId THEN Str(generatedSource) ELSE Null

\* load(id) in a closure whose isDev is dev
loadWith(dev, id) ==
    IF id = resolvedVirtualModuleId THEN Str(generatedSource) ELSE Null

\* load(id)
load(id) == loadWith(isDev, id)

\* the test without its anchor: /\.(js|ts)/.test(id)
testJsTsUnanchored(id) ==
    \E i \in 1..(Len(id) - 2) : SubSeq(id, i, i + 2) \in {<<".","j","s">>, <<".","t","s">>}

\* /\.(js|ts)$/.test(id)
testJsTs(id) == EndsWith(id, <<".","j","s">>) \/ EndsWith(id, <<".","t","s">>)

\* a transform that is not gated on isDev
transformUngated(code, id) ==
    IF testJsTs(id)
    THEN Str(code \o <<"\n","/","/"," ","L","a","s","t"," ","u","p","d","a","t","e","d",":"," ">> \o toISOString(now))
    ELSE Null

\* a transform that replaces the marker line of code it has already marked
transformOnce(code, id) ==
    IF ~isDev THEN Null
    ELSE IF testJsTs(id)
         THEN LET m == Len(<<"\n","/","/"," ","L","a","s","t"," ","u","p","d","a","t","e","d",":"," ">>) + Len(toISOString(now))
                  marked == Len(code) >= m
                            /\ SubSeq(code, Len(code) - m + 1, Len(code) - m + Len(<<"\n","/","/"," ","L","a","s","t"," ","u","p","d","a","t","e","d",":"," ">>))
                                = <<"\n","/","/"," ","L","a","s","t"," ","u","p","d","a","t","e","d",":"," ">>
                  base == IF marked THEN SubSeq(code, 1, Len(code) - m) ELSE code
              IN Str(base \o <<"\n","/","/"," ","L","a","s","t"," ","u","p","d","a","t","e","d",":"," ">> \o toISOString(now))
         ELSE Null

\* transform(code, id)
transform(code, id) ==
    IF ~isDev THEN Null
    ELSE IF testJsTs(id)
         THEN Str(code \o <<"\n","/","/"," ","L","a","s","t"," ","u","p","d","a","t","e","d",":"," ">> \o toISOString(now))
         ELSE Null

\* a watchChange that is not gated on isDev
watchChangeUngated(id, event) ==
    <<<<"[">> \o toISOString(now) \o <<"]"," ","F","i","l","e"," ">> \o event \o <<":"," ">> \o id>>

\* watchChange(id, change): what it writes to the console
watchChange(id, event) ==
    IF ~isDev THEN <<>>
    ELSE <<<<"[">> \o toISOString(now) \o <<"]"," ","F","i","l","e"," ">> \o event \o <<":"," ">> \o id>>

\* a configResolved that adds the plugin names to those it already holds
configResolvedNamesAppended(cfg) ==
    pluginNames \o [i \in 1..Len(cfg.plugins) |-> cfg.plugins[i].name]

\* a configResolved that captures the plugin names only the first time
configResolvedNamesOnce(cfg) ==
    IF pluginNames # <<>> THEN pluginNames
    ELSE [i \in 1..Len(cfg.plugins) |-> cfg.plugins[i].name]

\* configResolved: config.plugins.map(p => p.name)
configResolvedNames(cfg) == [i \in 1..Len(cfg.plugins) |-> cfg.plugins[i].name]

buildStart == <<<<"\n","[">> \o pluginName \o <<"]"," ","B","u","i","l","d","i","n","g",".",".",".">>>>

buildEnd == <<<<"\n","[">> \o pluginName \o <<"]"," ","D","o","n","e"," ","b","u","i","l","d","i","n","g">>>>

\* a generateBundle that reports only outside the dev server
generateBundleBuildOnly(bundle) ==
    IF isDev THEN <<>>
    ELSE <<<<"\n","[">> \o pluginName \o <<"]"," ","O","u","t","p","u","t"," ","b","u","n","d","l","e"," ","c","o","n","t","a","i","n","s",":">>>>
             \o [i \in 1..Len(bundle) |-> <<" ","-"," ">> \o bundle[i]]

\* generateBundle(_, bundle): the header, then one console.log per key of the bundle
generateBundle(bundle) ==
    <<<<"\n","[">> \o pluginName \o <<"]"," ","O","u","t","p","u","t"," ","b","u","n","d","l","e"," ","c","o","n","t","a","i","n","s",":">>>>
        \o [i \in 1..Len(bundle) |-> <<" ","-"," ">> \o bundle[i]]

closeBundle == <<<<"\n","[">> \o pluginName \o <<"]"," ","B","u","i","l","d"," ","i","s"," ","c","o","m","p","l","e","t","e","."," ","G","o","o","d","b","y","e","!","\n">>>>

\* a handleHotUpdate that is gated on isDev like watchChange
handleHotUpdateDevOnly(file) ==
    IF ~isDev THEN <<>>
    ELSE <<<<"[","H","M","R","]"," ","R","e","l","o","a","d","i","n","g"," ","d","u","e"," ","t","o"," ","f","i","l","e"," ","c","h","a","n","g","e",":"," ">> \o file>>

handleHotUpdate(file) == <<<<"[","H","M","R","]"," ","R","e","l","o","a","d","i","n","g"," ","d","u","e"," ","t","o"," ","f","i","l","e"," ","c","h","a","n","g","e",":"," ">> \o file>>

----------------------------------------------------------------------------
(* The state machine *)

NoChain == [orig |-> <<>>, n |-> 0]

\* qwikLogger(): the closure as constructed; buildTime is the clock's reading then
Init ==
    /\ now \in 0..1
    /\ buildTime = toISOString(now)
    /\ isDev = FALSE
    /\ pluginNames = <<>>
    /\ viteMode = <<>>
    /\ viteCommand = <<>>
    /\ viteConfigRoot = <<>>
    /\ call = [hook |-> "qwikLogger", args |-> <<>>]
    /\ ret = Undefined
    /\ logged = <<>>
    /\ lastConfig = <<>>
    /\ lastResolved = <<>>
    /\ chain = NoChain
    /\ twin = [isDev |-> FALSE, ret |-> Undefined]

\* time passes between hook invocations
Tick ==
    /\ now < MaxClock
    /\ now' = now + 1
    /\ UNCHANGED <<isDev, pluginNames, viteMode, viteCommand, viteConfigRoot,
                   buildTime, call, ret, logged, lastConfig, lastResolved, chain, twin>>

ConfigHook ==
    \E command \in Commands :
        /\ isDev' = config(command)
        /\ call' = [hook |-> "config", args |-> <<command>>]
        /\ ret' = Undefined
        /\ logged' = <<>>
        /\ lastConfig' = <<command>>
        /\ chain' = NoChain
        /\ twin' = [isDev |-> config(Exchanged(command)), ret |-> Undefined]
        /\ UNCHANGED <<pluginNames, viteMode, viteCommand, viteConfigRoot,
                       buildTime, now, lastResolved>>

ResolveIdHook ==
    \E source \in Ids :
        /\ call' = [hook |-> "resolveId", args |-> <<source>>]
        /\ ret' = resolveId(source)
        /\ logged' = <<>>
        /\ chain' = NoChain
        /\ twin' = [twin EXCEPT !.ret = resolveIdWith(twin.isDev, source)]
        /\ UNCHANGED <<isDev, pluginNames, viteMode, viteCommand, viteConfigRoot,
                       buildTime, now, lastConfig, lastResolved>>

\* a load whose listing of the names reverses pluginNames in place
LoadHookReversing ==
    \E id \in Ids :
        /\ call' = [hook |-> "load", args |-> <<id>>]
        /\ ret' = load(id)
        /\ logged' = <<>>
        /\ chain' = NoChain
        /\ twin' = [twin EXCEPT !.ret = loadWith(twin.isDev, id)]
        /\ pluginNames' = IF id = resolvedVirtualModuleId
                          THEN [i \in 1..Len(pluginNames) |-> pluginNames[Len(pluginNames) + 1 - i]]
                          ELSE pluginNames
        /\ UNCHANGED <<isDev, viteMode, viteCommand, viteConfigRoot,
                       buildTime, now, lastConfig, lastResolved>>

LoadHook ==
    \E id \in Ids :
        /\ call' = [hook |-> "load", args |-> <<id>>]
        /\ ret' = load(id)
        /\ logged' = <<>>
        /\ chain' = NoChain
        /\ twin' = [twin EXCEPT !.ret = loadWith(twin.isDev, id)]
        /\ UNCHANGED <<isDev, pluginNames, viteMode, viteCommand, viteConfigRoot,
                       buildTime, now, lastConfig, lastResolved>>

\* whether this transform is applied to the output of the one just performed
Reapplied(code, id) ==
    /\ call.hook = "transform"
    /\ ret.t = "string"
    /\ code = ret.v
    /\ id = call.args[2]

Transform(code, id) ==
    /\ call' = [hook |-> "transform", args |-> <<code, id>>]
    /\ ret' = transform(code, id)
    /\ logged' = <<>>
    /\ chain' = IF transform(code, id) = Null THEN NoChain
                ELSE IF Reapplied(code, id) THEN [chain EXCEPT !.n = @ + 1]
                ELSE [orig |-> code, n |-> 1]
    /\ twin' = [twin EXCEPT !.ret = Undefined]
    /\ UNCHANGED <<isDev, pluginNames, viteMode, viteCommand, viteConfigRoot,
                   buildTime, now, lastConfig, lastResolved>>

\* transform of a module's source
TransformHook == \E code \in Codes, id \in TransformIds : Transform(code, id)

\* transform of what the previous transform returned, for the same id
TransformAgainHook ==
    /\ call.hook = "transform"
    /\ ret.t = "string"
    /\ chain.n < MaxApply
    /\ Transform(ret.v, call.args[2])

WatchChangeHook ==
    \E id \in Ids, event \in Events :
        /\ call' = [hook |-> "watchChange", args |-> <<id, event>>]
        /\ ret' = Undefined
        /\ logged' = watchChange(id, event)
        /\ chain' = NoChain
        /\ twin' = [twin EXCEPT !.ret = Undefined]
        /\ UNCHANGED <<isDev, pluginNames, viteMode, viteCommand, viteConfigRoot,
                       buildTime, now, lastConfig, lastResolved>>

ConfigResolvedHook ==
    \E cfg \in ResolvedConfigs :
        /\ pluginNames' = configResolvedNames(cfg)
        /\ viteMode' = cfg.mode
        /\ viteCommand' = cfg.command
        /\ viteConfigRoot' = cfg.root
        /\ call' = [hook |-> "configResolved", args |-> <<cfg>>]
        /\ ret' = Undefined
        /\ logged' = <<>>
        /\ lastResolved' = <<cfg>>
        /\ chain' = NoChain
        /\ twin' = [twin EXCEPT !.ret = Undefined]
        /\ UNCHANGED <<isDev, buildTime, now, lastConfig>>

\* a hook that only writes lines to the console
Report(hook, args, lines) ==
    /\ call' = [hook |-> hook, args |-> args]
    /\ ret' = Undefined
    /\ logged' = lines
    /\ chain' = NoChain
    /\ twin' = [twin EXCEPT !.ret = Undefined]
    /\ UNCHANGED <<isDev, pluginNames, viteMode, viteCommand, viteConfigRoot,
                   buildTime, now, lastConfig, lastResolved>>

BuildStartHook == Report("buildStart", <<>>, buildStart)

BuildEndHook == Report("buildEnd", <<>>, buildEnd)

GenerateBundleHook ==
    \E bundle \in Bundles : Report("generateBundle", <<bundle>>, generateBundle(bundle))

CloseBundleHook == Report("closeBundle", <<>>, closeBundle)

HandleHotUpdateHook ==
    \E file \in Ids : Report("handleHotUpdate", <<file>>, handleHotUpdate(file))

Next ==
    \/ Tick
    \/ ConfigHook
    \/ ResolveIdHook
    \/ LoadHook
    \/ TransformHook
    \/ TransformAgainHook
    \/ WatchChangeHook
    \/ ConfigResolvedHook
    \/ BuildStartHook
    \/ BuildEndHook
    \/ GenerateBundleHook
    \/ CloseBundleHook
    \/ HandleHotUpdateHook

Spec == Init /\ [][Next]_vars

----------------------------------------------------------------------------
(* Reading strings: what a consumer finds in a returned text *)

\* the position of the first occurrence of pat in s at or after from, or 0
IndexOf(s, pat, from) ==
    LET at == {i \in from..(Len(s) - Len(pat) + 1) : SubSeq(s, i, i + Len(pat) - 1) = pat}
    IN IF at = {} THEN 0 ELSE CHOOSE i \in at : \A j \in at : i <= j

Contains(s, pat) == IndexOf(s, pat, 1) # 0

\* the text between the first occurrence of open and the next occurrence of close
Between(s, open, close) ==
    LET a == IndexOf(s, open, 1)
        b == IF a = 0 THEN 0 ELSE IndexOf(s, close, a + Len(open))
    IN IF a = 0 \/ b = 0 THEN <<"?">> ELSE SubSeq(s, a + Len(open), b - 1)

RECURSIVE Split(_, _)
\* the pieces of s between occurrences of the character sep
Split(s, sep) ==
    LET i == IndexOf(s, <<sep>>, 1)
    IN IF i = 0 THEN <<s>>
       ELSE <<SubSeq(s, 1, i - 1)>> \o Split(SubSeq(s, i + 1, Len(s)), sep)

\* the initialiser of `export const <name> = "<value>";` in a generated source
ExportedString(source, name) ==
    Between(source, <<"e","x","p","o","r","t"," ","c","o","n","s","t"," ">> \o name \o <<" ","="," ","\"">>, <<"\"",";","\n">>)

\* the elements of `export const pluginNames = [<elements>];`, as written
ExportedArray(source) ==
    LET text == Between(source, <<"e","x","p","o","r","t"," ","c","o","n","s","t"," ","p","l","u","g","i","n","N","a","m","e","s"," ","="," ","[">>, <<"]",";","\n">>)
    IN IF text = <<>> THEN <<>> ELSE Split(text, ",")

\* a hook invocation was just performed
Called(hook) == call.hook = hook

----------------------------------------------------------------------------
(* Virtual module provider *)

\* C1: in every reachable state, resolveId of a source other than
\* "virtual:vite-info" returns null; the already-resolved identifier
\* (NUL followed by "virtual:vite-info") is such a source.
C1_ResolveOthersNull ==
    Called("resolveId") /\ call.args[1] # <<"v","i","r","t","u","a","l",":","v","i","t","e","-","i","n","f","o">> => ret = Null

C1_Witness ==
    /\ Called("resolveId")
    /\ call.args[1] = <<NUL>> \o <<"v","i","r","t","u","a","l",":","v","i","t","e","-","i","n","f","o">>
    /\ ret = Null
    /\ lastConfig # <<>>
    /\ lastResolved # <<>>

\* C2: resolveId("virtual:vite-info") returns, in every reachable state, the
\* source prefixed with NUL, which differs from the unprefixed id.
C2_ResolveStable ==
    Called("resolveId") /\ call.args[1] = <<"v","i","r","t","u","a","l",":","v","i","t","e","-","i","n","f","o">> =>
        /\ ret.t = "string"
        /\ Len(ret.v) = Len(call.args[1]) + 1
        /\ Head(ret.v) = NUL
        /\ Tail(ret.v) = call.args[1]
        /\ ret.v # call.args[1]

C2_Witness ==
    /\ Called("resolveId")
    /\ call.args[1] = <<"v","i","r","t","u","a","l",":","v","i","t","e","-","i","n","f","o">>
    /\ ret.t = "string"
    /\ lastConfig # <<>>
    /\ lastResolved # <<>>
    /\ now > 0

\* C3: once configResolved has run, load of the resolved identifier returns a
\* source whose pluginNames array holds the names of the most recent
\* configResolved call, quoted, in order, and whose viteMode, viteCommand and
\* viteConfigRoot are that call's mode, command and root.
C3_LoadReflectsLatestConfig ==
    Called("load") /\ call.args[1] = <<NUL>> \o <<"v","i","r","t","u","a","l",":","v","i","t","e","-","i","n","f","o">> /\ lastResolved # <<>> =>
        LET cfg == lastResolved[1] IN
        /\ ret.t = "string"
        /\ ExportedArray(ret.v) =
               [i \in 1..Len(cfg.plugins) |-> <<"'">> \o cfg.plugins[i].name \o <<"'">>]
        /\ ExportedString(ret.v, <<"v","i","t","e","M","o","d","e">>) = cfg.mode
        /\ ExportedString(ret.v, <<"v","i","t","e","C","o","m","m","a","n","d">>) = cfg.command
        /\ ExportedString(ret.v, <<"v","i","t","e","C","o","n","f","i","g","R","o","o","t">>) = cfg.root

\* a load after configResolved has run at least twice: the names differ from
\* the empty default and from a one-element list
C3_Witness ==
    /\ Called("load")
    /\ ret.t = "string"
    /\ lastResolved # <<>>
    /\ Len(lastResolved[1].plugins) = 2
    /\ ExportedArray(ret.v) = <<<<"'","b","'">>, <<"'","a","'">>>>
    /\ ExportedString(ret.v, <<"v","i","t","e","C","o","n","f","i","g","R","o","o","t">>) = <<"/","s","r","v">>

\* C4: load returns null for every id other than the resolved identifier, the
\* unprefixed "virtual:vite-info" among them; it returns a source only for
\* the resolved identifier.
C4_LoadOthersNull ==
    Called("load") =>
        /\ call.args[1] # <<NUL>> \o <<"v","i","r","t","u","a","l",":","v","i","t","e","-","i","n","f","o">> => ret = Null
        /\ ret # Null => call.args[1] = <<NUL>> \o <<"v","i","r","t","u","a","l",":","v","i","t","e","-","i","n","f","o">>

C4_Witness ==
    /\ Called("load")
    /\ call.args[1] = <<"v","i","r","t","u","a","l",":","v","i","t","e","-","i","n","f","o">>
    /\ ret = Null
    /\ lastResolved # <<>>


\* C5: buildTime is never changed by a step, and every load of the resolved
\* identifier embeds it: all loads of one plugin instance export the same
\* buildTime, whatever the clock shows when they run.
C5_BuildTimeFixed ==
    /\ [][buildTime' = buildTime]_vars
    /\ [](Called("load") /\ ret.t = "string" =>
             ExportedString(ret.v, <<"b","u","i","l","d","T","i","m","e">>) = buildTime)

\* a load made after config, configResolved and a tick of the clock
C5_Witness ==
    /\ Called("load")
    /\ ret.t = "string"
    /\ lastConfig # <<>>
    /\ lastResolved # <<>>
    /\ buildTime # toISOString(now)
    /\ ExportedString(ret.v, <<"b","u","i","l","d","T","i","m","e">>) = buildTime

----------------------------------------------------------------------------
(* Dev transform *)

\* C6: while isDev is false, after config("build") or before any config,
\* transform returns null for every code and id, ids ending in .js or .ts
\* among them.
C6_TransformOffOutsideDev ==
    Called("transform") /\ ~isDev => ret = Null

\* a .ts file transformed before config was ever called
C6_Witness ==
    /\ Called("transform")
    /\ lastConfig = <<>>
    /\ call.args[2] = <<"a",".","t","s">>
    /\ call.args[1] = <<"c","o","n","s","t"," ","x"," ","="," ","1",";">>
    /\ ret = Null

\* a marker line: a line break, the comment prefix and an ISO-8601 timestamp
IsDigit(c) == c \in {"0","1","2","3","4","5","6","7","8","9"}

IsISO8601(s) ==
    /\ Len(s) = 24
    /\ \A i \in {1,2,3,4,6,7,9,10,12,13,15,16,18,19,21,22,23} : IsDigit(s[i])
    /\ s[5] = "-" /\ s[8] = "-" /\ s[11] = "T" /\ s[14] = ":" /\ s[17] = ":"
    /\ s[20] = "." /\ s[24] = "Z"

MarkerPrefix == <<"\n","/","/"," ","L","a","s","t"," ","u","p","d","a","t","e","d",":"," ">>

MarkerLen == Len(MarkerPrefix) + 24

IsMarkerLine(l) ==
    /\ Len(l) = MarkerLen
    /\ SubSeq(l, 1, Len(MarkerPrefix)) = MarkerPrefix
    /\ IsISO8601(SubSeq(l, Len(MarkerPrefix) + 1, MarkerLen))

\* s is base followed by exactly n marker lines
MarkedTimes(s, base, n) ==
    /\ Len(s) = Len(base) + n * MarkerLen
    /\ SubSeq(s, 1, Len(base)) = base
    /\ \A k \in 1..n :
           IsMarkerLine(SubSeq(s, Len(base) + (k - 1) * MarkerLen + 1,
                                  Len(base) + k * MarkerLen))

\* C7: with isDev true and an id ending in .js or .ts, transform returns its
\* input followed by exactly one marker line; applied n times in a row to its
\* own output it returns the original code followed by exactly n marker lines.
C7_TransformAppendsOneMarker ==
    Called("transform") =>
        /\ (isDev /\ (EndsWith(call.args[2], <<".","j","s">>) \/ EndsWith(call.args[2], <<".","t","s">>))
               => ret.t = "string")
        /\ ret.t = "string" =>
               /\ MarkedTimes(ret.v, call.args[1], 1)
               /\ chain.n >= 1
               /\ MarkedTimes(ret.v, chain.orig, chain.n)

\* the third application in a row, the clock having moved in between
C7_Witness ==
    /\ Called("transform")
    /\ ret.t = "string"
    /\ chain.n = 3
    /\ chain.orig = <<"c","o","n","s","t"," ","x"," ","="," ","1",";">>
    /\ MarkedTimes(ret.v, chain.orig, 3)
    /\ SubSeq(ret.v, Len(ret.v) - MarkerLen + 1, Len(ret.v))
           # SubSeq(ret.v, Len(chain.orig) + 1, Len(chain.orig) + MarkerLen)

----------------------------------------------------------------------------
(* Change observer *)

\* C8: watchChange returns nothing and leaves the plugin's state unchanged;
\* it logs nothing when isDev is false, and exactly one line, containing the
\* id and the event, when isDev is true.
C8_WatchChangeGated ==
    /\ [](Called("watchChange") =>
             /\ ret = Undefined
             /\ ~isDev => logged = <<>>
             /\ isDev => /\ Len(logged) = 1
                         /\ Contains(logged[1], call.args[1])
                         /\ Contains(logged[1], call.args[2]))
    /\ [][call'.hook = "watchChange" => state' = state /\ buildTime' = buildTime]_vars

C8_Witness ==
    /\ Called("watchChange")
    /\ isDev
    /\ lastResolved # <<>>
    /\ Len(logged) = 1
    /\ call.args = <<<<"a",".","t","s">>, <<"u","p","d","a","t","e">>>>

----------------------------------------------------------------------------
(* Plugin state and mode capture *)

\* C9: once config has been called, isDev is true exactly when the command of
\* the most recent config call was "serve"; a config call repeating the
\* command of the config call just before it leaves the state as it was.
C9_IsDevFollowsLatestConfig ==
    /\ [](lastConfig # <<>> => (isDev <=> lastConfig[1] = <<"s","e","r","v","e">>))
    /\ [][call.hook = "config" /\ call'.hook = "config" /\ call'.args = call.args
             => state' = state]_vars

\* config("serve") as the latest config call, other hooks having run since
C9_Witness ==
    /\ lastConfig = <<<<"s","e","r","v","e">>>>
    /\ isDev
    /\ lastResolved # <<>>
    /\ ~Called("config")

\* a step that is an invocation of config with a command the host does not document
ConfigUnrecognized ==
    /\ now' = now
    /\ call'.hook = "config"
    /\ call'.args[1] \notin {<<"s","e","r","v","e">>, <<"b","u","i","l","d">>}

\* C10 as stated: config with a command that is neither "serve" nor "build"
\* leaves isDev at the value it had before the call, and does not fail.
C10_UnrecognizedKeepsIsDev ==
    [][ConfigUnrecognized => isDev' = isDev /\ ret' = Undefined]_vars

\* C10 as amended: config with a command that is neither "serve" nor "build"
\* sets isDev to false whatever it was before, and does not fail.
C10_UnrecognizedClearsIsDev ==
    [][ConfigUnrecognized => isDev' = FALSE /\ ret' = Undefined]_vars

\* config with an unrecognized command has just run, and isDev is false
C10_Witness ==
    /\ Called("config")
    /\ call.args[1] = <<"p","r","e","v","i","e","w">>
    /\ lastConfig = <<<<"p","r","e","v","i","e","w">>>>
    /\ ~isDev
    /\ lastResolved # <<>>


----------------------------------------------------------------------------
(* The generated source read as JavaScript: what an importer of            *)
(* 'virtual:vite-info' receives                                            *)

SyntaxError == [ok |-> FALSE, val |-> <<>>, next |-> 0]

\* the character an escape sequence \c stands for
Unescape(c) ==
    CASE c = "n" -> <<"\n">>
      [] c = "t" -> <<"\t">>
      [] c = "0" -> <<NUL>>
      [] c = "\n" -> <<>>
      [] OTHER -> <<c>>

RECURSIVE ScanLiteral(_, _, _, _)
\* the rest of a string literal opened by quote q, from position j on
ScanLiteral(s, j, q, acc) ==
    IF j > Len(s) \/ s[j] = "\n" THEN SyntaxError
    ELSE IF s[j] = q THEN [ok |-> TRUE, val |-> acc, next |-> j + 1]
    ELSE IF s[j] = "\\"
         THEN IF j + 1 > Len(s) THEN SyntaxError
              ELSE ScanLiteral(s, j + 2, q, acc \o Unescape(s[j + 1]))
         ELSE ScanLiteral(s, j + 1, q, acc \o <<s[j]>>)

\* the string literal that starts at position i, quoted with q
ReadLiteral(s, i, q) ==
    IF i > Len(s) \/ s[i] # q THEN SyntaxError ELSE ScanLiteral(s, i + 1, q, <<>>)

\* the value of `export const <name> = "<literal>";`
ImportedString(source, name) ==
    LET decl == <<"e","x","p","o","r","t"," ","c","o","n","s","t"," ">> \o name \o <<" ","="," ">>
        a == IndexOf(source, decl, 1)
        lit == IF a = 0 THEN SyntaxError ELSE ReadLiteral(source, a + Len(decl), "\"")
    IN IF lit.ok /\ lit.next <= Len(source) /\ source[lit.next] = ";"
       THEN [ok |-> TRUE, val |-> lit.val]
       ELSE [ok |-> FALSE, val |-> <<>>]

RECURSIVE ReadElements(_, _, _)
\* the elements of an array literal of single-quoted strings, from position i on
ReadElements(s, i, acc) ==
    LET lit == ReadLiteral(s, i, "'")
    IN IF ~lit.ok \/ lit.next > Len(s) THEN [ok |-> FALSE, val |-> <<>>]
       ELSE IF s[lit.next] = "]" THEN [ok |-> TRUE, val |-> Append(acc, lit.val)]
       ELSE IF s[lit.next] = "," THEN ReadElements(s, lit.next + 1, Append(acc, lit.val))
       ELSE [ok |-> FALSE, val |-> <<>>]

\* the value of `export const pluginNames = [<elements>];`
ImportedArray(source) ==
    LET decl == <<"e","x","p","o","r","t"," ","c","o","n","s","t"," ","p","l","u","g","i","n","N","a","m","e","s"," ","="," ","[">>
        a == IndexOf(source, decl, 1)
        i == a + Len(decl)
    IN IF a = 0 \/ i > Len(source) THEN [ok |-> FALSE, val |-> <<>>]
       ELSE IF source[i] = "]" THEN [ok |-> TRUE, val |-> <<>>]
       ELSE ReadElements(source, i, <<>>)

\* C11: whatever strings configResolved captured, the pluginNames array and
\* the viteMode, viteCommand and viteConfigRoot constants of the source load
\* returns, read as JavaScript literals, have the captured values.
C11_ImportedEqualsCaptured ==
    Called("load") /\ ret.t = "string" /\ lastResolved # <<>> =>
        LET cfg == lastResolved[1] IN
        /\ ImportedArray(ret.v) =
               [ok |-> TRUE, val |-> [i \in 1..Len(cfg.plugins) |-> cfg.plugins[i].name]]
        /\ ImportedString(ret.v, <<"v","i","t","e","M","o","d","e">>) = [ok |-> TRUE, val |-> cfg.mode]
        /\ ImportedString(ret.v, <<"v","i","t","e","C","o","m","m","a","n","d">>) = [ok |-> TRUE, val |-> cfg.command]
        /\ ImportedString(ret.v, <<"v","i","t","e","C","o","n","f","i","g","R","o","o","t">>) = [ok |-> TRUE, val |-> cfg.root]

\* strings that hold no quote and no backslash are imported as captured
PlainConfigsImported ==
    Called("load") /\ ret.t = "string" /\ lastResolved # <<>>
        /\ lastResolved[1] \notin VerbatimConfigs =>
        LET cfg == lastResolved[1] IN
        /\ ImportedArray(ret.v) =
               [ok |-> TRUE, val |-> [i \in 1..Len(cfg.plugins) |-> cfg.plugins[i].name]]
        /\ ImportedString(ret.v, <<"v","i","t","e","M","o","d","e">>) = [ok |-> TRUE, val |-> cfg.mode]
        /\ ImportedString(ret.v, <<"v","i","t","e","C","o","m","m","a","n","d">>) = [ok |-> TRUE, val |-> cfg.command]
        /\ ImportedString(ret.v, <<"v","i","t","e","C","o","n","f","i","g","R","o","o","t">>) = [ok |-> TRUE, val |-> cfg.root]


\* C12: load of the resolved identifier before configResolved has ever run
\* returns a source, not null: its pluginNames array is empty, its viteMode,
\* viteCommand and viteConfigRoot are empty strings, and its buildTime is
\* the plugin's buildTime.
C12_LoadBeforeResolvedIsBlank ==
    Called("load") /\ call.args[1] = <<NUL>> \o <<"v","i","r","t","u","a","l",":","v","i","t","e","-","i","n","f","o">> /\ lastResolved = <<>> =>
        /\ ret.t = "string"
        /\ ImportedArray(ret.v) = [ok |-> TRUE, val |-> <<>>]
        /\ ImportedString(ret.v, <<"v","i","t","e","M","o","d","e">>) = [ok |-> TRUE, val |-> <<>>]
        /\ ImportedString(ret.v, <<"v","i","t","e","C","o","m","m","a","n","d">>) = [ok |-> TRUE, val |-> <<>>]
        /\ ImportedString(ret.v, <<"v","i","t","e","C","o","n","f","i","g","R","o","o","t">>) = [ok |-> TRUE, val |-> <<>>]
        /\ ImportedString(ret.v, <<"b","u","i","l","d","T","i","m","e">>) = [ok |-> TRUE, val |-> buildTime]
        /\ IsISO8601(ImportedString(ret.v, <<"b","u","i","l","d","T","i","m","e">>).val)

\* such a load, made after config("serve") and a tick of the clock
C12_Witness ==
    /\ Called("load")
    /\ call.args[1] = <<NUL>> \o <<"v","i","r","t","u","a","l",":","v","i","t","e","-","i","n","f","o">>
    /\ lastResolved = <<>>
    /\ lastConfig = <<<<"s","e","r","v","e">>>>
    /\ ret.t = "string"
    /\ buildTime # toISOString(now)


----------------------------------------------------------------------------
(* The host's order of invocation, as the hooks' comments document it:     *)
(* config runs once during plugin setup; configResolved runs after config  *)
(* and before the build or the dev server starts; modules are resolved,    *)
(* loaded and transformed once it has started; watchChange and             *)
(* handleHotUpdate belong to the dev server; buildEnd, generateBundle and  *)
(* closeBundle to the build.  The order among the hooks of a running       *)
(* build or server is left open, which allows more than the host does.     *)

HostRunning == lastResolved # <<>>

HostServing == HostRunning /\ lastConfig = <<serve>>

HostBuilding == HostRunning /\ lastConfig = <<build>>

HostConfig == lastConfig = <<>> /\ ConfigHook

HostConfigResolved == lastConfig # <<>> /\ lastResolved = <<>> /\ ConfigResolvedHook

HostBuildStart == HostRunning /\ BuildStartHook

HostResolveId == HostRunning /\ ResolveIdHook

HostLoad == HostRunning /\ LoadHook

HostTransform == HostRunning /\ TransformHook

HostTransformAgain == HostRunning /\ TransformAgainHook

HostWatchChange == HostServing /\ WatchChangeHook

HostHandleHotUpdate == HostServing /\ HandleHotUpdateHook

HostBuildEnd == HostBuilding /\ BuildEndHook

HostGenerateBundle == HostBuilding /\ GenerateBundleHook

HostCloseBundle == HostBuilding /\ CloseBundleHook

HostNext ==
    \/ Tick
    \/ HostConfig
    \/ HostConfigResolved
    \/ HostBuildStart
    \/ HostResolveId
    \/ HostLoad
    \/ HostTransform
    \/ HostTransformAgain
    \/ HostWatchChange
    \/ HostHandleHotUpdate
    \/ HostBuildEnd
    \/ HostGenerateBundle
    \/ HostCloseBundle

HostSpec == Init /\ [][HostNext]_vars

----------------------------------------------------------------------------
(* Writers of the plugin's state *)

\* C14: a step changes isDev only if it is a config call, changes
\* pluginNames, viteMode, viteCommand or viteConfigRoot only if it is a
\* configResolved call, and every other hook (resolveId, load, transform,
\* watchChange, buildStart, buildEnd, generateBundle, closeBundle,
\* handleHotUpdate) leaves all five unchanged.
C14_TwoWriters ==
    [][/\ isDev' # isDev => call'.hook = "config"
       /\ <<pluginNames, viteMode, viteCommand, viteConfigRoot>>'
              # <<pluginNames, viteMode, viteCommand, viteConfigRoot>>
              => call'.hook = "configResolved"
       /\ call'.hook \notin {"config", "configResolved"} => state' = state]_vars

\* a load that returned a source, the state being what config("serve") and
\* configResolved left
C14_Witness ==
    /\ Called("load")
    /\ ret.t = "string"
    /\ lastConfig = <<<<"s","e","r","v","e">>>>
    /\ isDev
    /\ lastResolved # <<>>
    /\ pluginNames = <<<<"b">>, <<"a">>>>
    /\ viteConfigRoot = lastResolved[1].root


\* C15: every configResolved call leaves pluginNames, viteMode, viteCommand
\* and viteConfigRoot equal to the names, mode, command and root of its
\* argument, whatever they held before, and does not change isDev or
\* buildTime: a config reporting "serve" does not make isDev true.
C15_ConfigResolvedOverwrites ==
    /\ [](Called("configResolved") =>
             LET cfg == call.args[1] IN
             /\ pluginNames = [i \in 1..Len(cfg.plugins) |-> cfg.plugins[i].name]
             /\ Len(pluginNames) = Len(cfg.plugins)
             /\ viteMode = cfg.mode
             /\ viteCommand = cfg.command
             /\ viteConfigRoot = cfg.root)
    /\ [][call'.hook = "configResolved" => isDev' = isDev /\ buildTime' = buildTime]_vars

\* configResolved reporting "serve" after config("build"): isDev stays false
C15_Witness ==
    /\ Called("configResolved")
    /\ lastConfig = <<<<"b","u","i","l","d">>>>
    /\ viteCommand = <<"s","e","r","v","e">>
    /\ pluginNames = <<<<"a">>>>
    /\ ~isDev


----------------------------------------------------------------------------
(* Dev transform: which ids are annotated *)

\* the last three characters of id are ".js" or ".ts", in lower case
HasJsTsSuffix(id) ==
    /\ Len(id) >= 3
    /\ id[Len(id) - 2] = "."
    /\ \/ id[Len(id) - 1] = "j" /\ id[Len(id)] = "s"
       \/ id[Len(id) - 1] = "t" /\ id[Len(id)] = "s"

\* C16: with isDev true, transform returns null for every id that does not
\* end in ".js" or ".ts" exactly: ids ending in .tsx, .jsx, .TS or .JS, ids
\* with a query string after the extension, and the resolved identifier of
\* the virtual module are not annotated.
C16_OnlyJsTsAnnotated ==
    Called("transform") /\ isDev =>
        /\ ~HasJsTsSuffix(call.args[2]) => ret = Null
        /\ call.args[2] \in {<<"a",".","t","s","x">>, <<"a",".","j","s","x">>, <<"a",".","T","S">>, <<"a",".","J","S">>, <<"a",".","t","s","?","v">>,
                             <<NUL>> \o <<"v","i","r","t","u","a","l",":","v","i","t","e","-","i","n","f","o">>} => ret = Null

\* the dev server transforming a .ts module requested with a query string
C16_Witness ==
    /\ Called("transform")
    /\ isDev
    /\ call.args[2] = <<"a",".","t","s","?","v">>
    /\ call.args[1] = <<"c","o","n","s","t"," ","x"," ","="," ","1",";">>
    /\ ret = Null


----------------------------------------------------------------------------
(* Lifecycle reporter *)

\* the number of lines of text in a console.log argument: line breaks before
\* and after the text only set it off with blank lines
TextLines(s) ==
    LET pieces == Split(s, "\n")
    IN Cardinality({i \in 1..Len(pieces) : pieces[i] # <<>>})

\* C17: every handleHotUpdate call, whether isDev is true or false, logs
\* exactly one line, which contains the path of the changed file, and
\* changes no state.
C17_HotUpdateAlwaysLogs ==
    /\ [](Called("handleHotUpdate") =>
             /\ ret = Undefined
             /\ Len(logged) = 1
             /\ TextLines(logged[1]) = 1
             /\ Contains(logged[1], call.args[1]))
    /\ [][call'.hook = "handleHotUpdate" => state' = state /\ buildTime' = buildTime]_vars

\* a hot update reported after config("build"), isDev being false
C17_Witness ==
    /\ Called("handleHotUpdate")
    /\ lastConfig = <<<<"b","u","i","l","d">>>>
    /\ ~isDev
    /\ call.args[1] = <<"a",".","t","s">>
    /\ Len(logged) = 1

\* C18: generateBundle logs one header line and then one line for each file
\* name of the bundle, in the bundle's order, none left out and none twice
\* (no file line for an empty bundle); buildStart, buildEnd and closeBundle
\* log one line each; all four do so whether isDev is true or false.  A line
\* is one console.log call with one line of text.
C18_LifecycleReports ==
    /\ Called("generateBundle") =>
           LET bundle == call.args[1] IN
           /\ Len(logged) = 1 + Len(bundle)
           /\ TextLines(logged[1]) = 1
           /\ Contains(logged[1], <<"O","u","t","p","u","t"," ","b","u","n","d","l","e"," ","c","o","n","t","a","i","n","s">>)
           /\ \A i \in 1..Len(bundle) :
                  /\ logged[i + 1] = <<" ","-"," ">> \o bundle[i]
                  /\ TextLines(logged[i + 1]) = 1
    /\ Called("buildStart") \/ Called("buildEnd") \/ Called("closeBundle") =>
           /\ Len(logged) = 1
           /\ TextLines(logged[1]) = 1
           /\ Contains(logged[1], <<"v","i","t","e","-","p","l","u","g","i","n","-","q","w","i","k","-","l","o","g","g","e","r">>)

\* a bundle of two files reported after config("serve"), isDev being true
C18_Witness ==
    /\ Called("generateBundle")
    /\ lastConfig = <<<<"s","e","r","v","e">>>>
    /\ isDev
    /\ Len(call.args[1]) = 2
    /\ Len(logged) = 3
    /\ logged[2] # logged[3]


----------------------------------------------------------------------------
(* Two runs that differ in the command given to config *)

\* C19: of two runs given the same hook calls, one with "serve" wherever the
\* other's config is given "build", every resolveId call and every load call
\* returns the same value in both; so the virtual module is resolved and
\* served when isDev is false as it is when isDev is true.
C19_ServedWhateverTheCommand ==
    /\ Called("resolveId") \/ Called("load") => twin.ret = ret
    /\ lastConfig # <<>> /\ lastConfig[1] \in {<<"s","e","r","v","e">>, <<"b","u","i","l","d">>} => twin.isDev # isDev

\* a production build loading the virtual module: isDev is false here and
\* true in the other run, and both return the source
C19_Witness ==
    /\ Called("load")
    /\ lastConfig = <<<<"b","u","i","l","d">>>>
    /\ ~isDev
    /\ twin.isDev
    /\ lastResolved # <<>>
    /\ ret.t = "string"
    /\ twin.ret = ret


====
